---- MODULE Spec2Model ----
(***************************************************************************)
(* Model of the resource-subscription engine of skilljack-mcp             *)
(* (subscriptions.ts): URI resolution, the subscription graph, the        *)
(* per-path chokidar watchers, the per-URI debounce timers and the        *)
(* reconcile pass run by refreshSkills after every skill rediscovery.     *)
(*                                                                         *)
(* Paths are sequences of segments (<<"d1", "SKILL.md">> is                *)
(* /d1/SKILL.md).  A URI is the sequence of its tokens: the scheme         *)
(* prefix, then "/" separators and the segments between them               *)
(* (<<"skill://", "a", "/">> is skill://a/).  Symbolic links are not       *)
(* modelled.                                                               *)
(***************************************************************************)
EXTENDS Integers, Sequences, FiniteSets, TLC

(* ---- bounds ---- *)
NumDirs == 3
MaxSubs == 2
(* the watcher events of one burst *)
MaxBurst == 2
(* the roots/list_changed handlers that await a reply at one time *)
MaxHandlers == 2

(* ---- program constants ---- *)
DEBOUNCE_MS == 100

(* the grain of time: one tick is one debounce window *)
TickMs == DEBOUNCE_MS

(* ---- universe of inputs ---- *)
DirSeg == <<"d1", "d2", "d3", "d4", "d5">>
Dirs == {<<DirSeg[i]>> : i \in 1..NumDirs}
Names == {"a", "b"}
SKILL == "skill://"
Manifest(dir) == dir \o <<"SKILL.md">>
Uris ==
    { <<SKILL>>,
      <<SKILL, "a">>, <<SKILL, "a", "/">>,
      <<SKILL, "b", "/">>,
      <<"http://", "a">> }
EventPaths == {Manifest(d) : d \in Dirs}

(* A store is the skillMap: skill name -> path of its SKILL.md.  Discovery *)
(* finds at most one manifest per directory and keeps one skill per name,  *)
(* so two names never share a directory.                                   *)
StoresOf(names) ==
    UNION { {f \in [N -> {Manifest(d) : d \in Dirs}] :
                \A x, y \in N : x # y => f[x] # f[y]} : N \in SUBSET names }
Stores == StoresOf(Names)

(* the inputs of the specification with file events and timers: the URIs   *)
(* of one skill and the stores that hold at most that skill                *)
TimerUris == {<<SKILL>>, <<SKILL, "a">>, <<SKILL, "a", "/">>, <<"http://", "a">>}
TimerStores == StoresOf({"a"})
(* the inputs of the specification of URI resolution: the three URI forms  *)
(* with a known, an encoded and an unknown name, file URIs inside and      *)
(* outside the skill directory, and malformed URIs                         *)
PathUris ==
    { <<SKILL>>,
      <<SKILL, "a">>, <<SKILL, "%61">>, <<SKILL, "c">>, <<SKILL, "%">>,
      <<SKILL, "a", "/">>, <<SKILL, "c", "/">>,
      <<SKILL, "a", "/", "f">>, <<SKILL, "a", "/", "g">>,
      <<SKILL, "a", "/", ".">>,
      <<SKILL, "a", "/", "f", "/", "..", "/", "g">>,
      <<SKILL, "a", "/", "..">>,
      <<SKILL, "a", "/", "..", "/", "d2", "/", "SKILL.md">>,
      <<SKILL, "a", "/", "/", "d2">>,
      <<SKILL, "c", "/", "f">>,
      <<SKILL, "/", "a">>,
      <<"http://", "a">> }
(* the URIs of PathUris with a sub-path, and the directory URI they share  *)
(* paths with                                                              *)
FileUris ==
    {u \in PathUris : Len(u) >= 4 /\ u[2] = "a"} \cup {<<SKILL, "a", "/">>}
(* the files and directories on disk: the root, the skill directories,     *)
(* their manifests and one more file in each                               *)
Files ==
    {<<>>} \cup Dirs \cup {Manifest(d) : d \in Dirs} \cup {d \o <<"f">> : d \in Dirs}
(* the inputs of the specification with fair timers *)
LiveUris == {<<SKILL, "a">>, <<SKILL, "a", "/">>}

(* ---- helpers for JS Map ---- *)
MapSet(f, k, v) == [x \in (DOMAIN f) \cup {k} |-> IF x = k THEN v ELSE f[x]]
MapDelete(f, k) == [x \in (DOMAIN f) \ {k} |-> f[x]]
MapGet(f, k) == IF k \in DOMAIN f THEN f[k] ELSE {}
EmptyMap == [x \in {} |-> {}]
(* insertion order of the keys of a Map *)
KeySet(order, k) ==
    IF \E i \in 1..Len(order) : order[i] = k THEN order ELSE Append(order, k)
KeyDelete(order, k) == SelectSeq(order, LAMBDA x : x # k)

(* ---- node:path ---- *)
dirname(p) == SubSeq(p, 1, Len(p) - 1)

IsPrefix(base, p) ==
    /\ Len(base) <= Len(p)
    /\ SubSeq(p, 1, Len(base)) = base

RECURSIVE normalizeFrom(_, _)
normalizeFrom(acc, toks) ==
    IF toks = <<>> THEN acc
    ELSE LET t == Head(toks) IN
         IF t = "/" \/ t = "." THEN normalizeFrom(acc, Tail(toks))
         ELSE IF t = ".."
              THEN normalizeFrom(IF acc = <<>> THEN acc
                                 ELSE SubSeq(acc, 1, Len(acc) - 1), Tail(toks))
              ELSE normalizeFrom(Append(acc, t), Tail(toks))

(* path.resolve(base, rel): rel is the token sequence of the sub-path; a   *)
(* leading "/" makes it absolute.                                          *)
resolve(base, rel) ==
    IF rel # <<>> /\ Head(rel) = "/" THEN normalizeFrom(<<>>, rel)
    ELSE normalizeFrom(base, rel)

normalize(p) == normalizeFrom(<<>>, p)

StrictlyBelow(base, p) == Len(base) < Len(p) /\ IsPrefix(base, p)

(* isPathWithinBase that lets every path through *)
isPathWithinBaseAny(targetPath, baseDir) == TRUE

(* isPathWithinBase without symbolic links.  realpathSync succeeds for the *)
(* paths that exist: then the target is the base or lies below it.  When   *)
(* it throws, the fallback accepts only a target below the base.           *)
isPathWithinBase(targetPath, baseDir) ==
    IF baseDir \in Files /\ targetPath \in Files
    THEN targetPath = baseDir \/ StrictlyBelow(baseDir, targetPath)
    ELSE StrictlyBelow(baseDir, targetPath)

decodeURIComponent(s) == IF s = "%61" THEN "a" ELSE s
(* decodeURIComponent throws URIError for a malformed escape sequence *)
decodeThrows(s) == s = "%"
(* resolveUriToFilePaths evaluates decodeURIComponent(name) when one of    *)
(* its three regular expressions with a name matches                       *)
resolveThrows(uri) ==
    /\ Len(uri) >= 2
    /\ Head(uri) = SKILL
    /\ uri[2] # "/"
    /\ Len(uri) >= 3 => uri[3] = "/"
    /\ decodeThrows(uri[2])

(* ---- resolveUriToFilePaths ---- *)
resolveUriToFilePaths(uri, skillMap_) ==
    IF uri = <<SKILL>>
    THEN {dirname(skillMap_[n]) : n \in DOMAIN skillMap_}
    ELSE IF Len(uri) = 0 \/ Head(uri) # SKILL THEN {}
    ELSE IF Len(uri) = 2 /\ uri[2] # "/"
    THEN LET skillName == decodeURIComponent(uri[2]) IN
         IF skillName \in DOMAIN skillMap_ THEN {skillMap_[skillName]} ELSE {}
    ELSE IF Len(uri) = 3 /\ uri[2] # "/" /\ uri[3] = "/"
    THEN LET skillName == decodeURIComponent(uri[2]) IN
         IF skillName \in DOMAIN skillMap_
         THEN {dirname(skillMap_[skillName])} ELSE {}
    ELSE IF Len(uri) >= 4 /\ uri[2] # "/" /\ uri[3] = "/"
    THEN LET skillName == decodeURIComponent(uri[2])
             filePath == SubSeq(uri, 4, Len(uri))
         IN  IF skillName \notin DOMAIN skillMap_ THEN {}
             ELSE LET skillDir == dirname(skillMap_[skillName])
                      fullPath == resolve(skillDir, filePath)
                  IN  IF ~isPathWithinBase(fullPath, skillDir) THEN {}
                      ELSE {fullPath}
    ELSE {}


(* ---- skill directories and discovery (index.ts) ---- *)
(* the directories a user can configure, and the lists made of them *)
RootDirs == {<<"r1">>, <<"r2">>}
DirLists ==
    { <<>>, << <<"r1">> >>, << <<"r2">> >>,
      << <<"r1">>, <<"r2">> >>, << <<"r2">>, <<"r1">> >> }
SKILL_SUBDIRS == << <<".claude", "skills">>, <<"skills">> >>
(* the SKILL.md files that may exist; a skill is named after its directory *)
DiskPaths ==
    { <<"r1", "a", "SKILL.md">>, <<"r1", "skills", "a", "SKILL.md">>,
      <<"r2", "b", "SKILL.md">> }
(* readdirSync lists the entries of a directory in this order *)
EntryOrder == <<"a", "a2", "b">>
(* the name in the frontmatter of the SKILL.md below a directory entry:    *)
(* the entry a2 holds a second skill that calls itself a                    *)
metadataName(entry) == IF entry = "a2" THEN "a" ELSE entry
(* the SKILL.md files drawn for the calls of discoverSkillsFromDirs *)
ScanPaths ==
    { <<"r1", "a", "SKILL.md">>, <<"r1", "a2", "SKILL.md">>,
      <<"r1", ".claude", "skills", "a", "SKILL.md">>,
      <<"r1", "skills", "a", "SKILL.md">>,
      <<"r2", "a", "SKILL.md">>, <<"r2", "b", "SKILL.md">> }

(* discoverSkills(skillsDir): the skills in the sub-directories of         *)
(* skillsDir that hold a SKILL.md                                          *)
discoverSkills(skillsDir, disk_) ==
    LET entries == [i \in 1..Len(EntryOrder) |->
                       [name |-> metadataName(EntryOrder[i]),
                        path |-> skillsDir \o <<EntryOrder[i], "SKILL.md">>]]
    IN  SelectSeq(entries, LAMBDA e : e.path \in disk_)

(* the skills of one configured directory: the directory itself, then its  *)
(* standard sub-directories                                                 *)
dirSkills(skillsDir, disk_) ==
    discoverSkills(skillsDir, disk_)
        \o discoverSkills(skillsDir \o SKILL_SUBDIRS[1], disk_)
        \o discoverSkills(skillsDir \o SKILL_SUBDIRS[2], disk_)

(* the loop that adds skills and skips the names already seen *)
RECURSIVE addSkillsKeepAll(_, _)
addSkillsKeepAll(allSkills, skills) ==
    IF skills = <<>> THEN allSkills
    ELSE addSkillsKeepAll(Append(allSkills, Head(skills)), Tail(skills))

RECURSIVE addSkills(_, _)
addSkills(allSkills, skills) ==
    IF skills = <<>> THEN allSkills
    ELSE LET skill == Head(skills)
             seen == \E i \in 1..Len(allSkills) : allSkills[i].name = skill.name
         IN  addSkills(IF seen THEN allSkills ELSE Append(allSkills, skill),
                       Tail(skills))

RECURSIVE discoverLoop(_, _, _)
discoverLoop(allSkills, skillsDirs, disk_) ==
    IF skillsDirs = <<>> THEN allSkills
    ELSE discoverLoop(addSkills(allSkills, dirSkills(Head(skillsDirs), disk_)),
                      Tail(skillsDirs), disk_)

discoverSkillsFromDirs(skillsDirs, disk_) == discoverLoop(<<>>, skillsDirs, disk_)

(* createSkillMap: map.set(skill.name, skill) for every skill in order *)
RECURSIVE createSkillMapFrom(_, _)
createSkillMapFrom(map, skills) ==
    IF skills = <<>> THEN map
    ELSE createSkillMapFrom(MapSet(map, Head(skills).name, Head(skills).path),
                            Tail(skills))

createSkillMap(skills) == createSkillMapFrom(EmptyMap, skills)

(* ---- per-skill prompts (skill-prompts.ts) ---- *)
(* registerSkillPrompts: one prompt per skill of the map, its callback     *)
(* holding the path of the skill                                           *)
registerSkillPrompts(skillMap_) ==
    [name \in DOMAIN skillMap_ |->
        [enabled |-> TRUE, skillPath |-> skillMap_[name]]]

(* refreshPrompts, first loop: the prompts of the skills that are gone are *)
(* disabled and leave the registry; the server keeps them                  *)
disableRemoved(r, names) ==
    [r EXCEPT
       !.server = [name \in DOMAIN r.server |->
                      IF name \in r.registry /\ name \notin names
                      THEN [r.server[name] EXCEPT !.enabled = FALSE]
                      ELSE r.server[name]],
       !.registry = r.registry \cap names]

(* refreshPrompts, second loop, in the order of the skill map: a prompt    *)
(* in the registry gets its description updated; another name is           *)
(* registered, and McpServer.registerPrompt throws when it still holds a   *)
(* prompt of that name, which ends the loop                                *)
RECURSIVE addPrompts(_, _)
addPrompts(r, skills) ==
    IF skills = <<>> THEN r
    ELSE LET skill == Head(skills)
         IN  IF skill.name \in r.registry
             THEN addPrompts(r, Tail(skills))
             ELSE IF skill.name \in DOMAIN r.server
             THEN [r EXCEPT !.threw = TRUE]
             ELSE addPrompts(
                      [r EXCEPT
                         !.server = MapSet(r.server, skill.name,
                                           [enabled |-> TRUE,
                                            skillPath |-> skill.path]),
                         !.registry = r.registry \cup {skill.name}],
                      Tail(skills))

(* refreshPrompts(server, skillState, registry), skills being the skills   *)
(* of skillState.skillMap in the order of the map                          *)
refreshPrompts(registry, server, skills) ==
    addPrompts(
        disableRemoved([registry |-> registry, server |-> server,
                        threw |-> FALSE],
                       {skills[i].name : i \in 1..Len(skills)}),
        skills)

(* ---- skills from the roots of the client (roots-handler.ts) ---- *)
(* the SKILL.md files below the roots *)
RootPaths ==
    { <<"r1", "skills", "a", "SKILL.md">>,
      <<"r2", "skills", "a", "SKILL.md">>,
      <<"r2", ".claude", "skills", "b", "SKILL.md">> }

(* path.basename(rootPath) *)
basename(p) == p[Len(p)]

(* `${rootName}:${skill.name}` *)
prefixed(rootName, name) ==
    CASE rootName = "r1" /\ name = "a" -> "r1:a"
      [] rootName = "r1" /\ name = "b" -> "r1:b"
      [] rootName = "r2" /\ name = "a" -> "r2:a"
      [] rootName = "r2" /\ name = "b" -> "r2:b"

(* the skills of one root: those of its .claude/skills, then those of its  *)
(* skills, each with the name of the root it came from                     *)
rootSkills(root, disk_) ==
    LET found == discoverSkills(root \o SKILL_SUBDIRS[1], disk_)
                     \o discoverSkills(root \o SKILL_SUBDIRS[2], disk_)
    IN  [i \in 1..Len(found) |->
            [name |-> found[i].name, path |-> found[i].path,
             root |-> basename(root)]]

RECURSIVE allRootSkills(_, _)
allRootSkills(roots, disk_) ==
    IF roots = <<>> THEN <<>>
    ELSE rootSkills(Head(roots), disk_) \o allRootSkills(Tail(roots), disk_)

(* discoverSkillsFromRoots: a name found more than once gets the name of   *)
(* its root in front                                                       *)
discoverSkillsFromRoots(roots, disk_) ==
    LET all == allRootSkills(roots, disk_)
        nameCount(name) == Cardinality({i \in 1..Len(all) : all[i].name = name})
    IN  [i \in 1..Len(all) |->
            [name |-> IF nameCount(all[i].name) > 1
                      THEN prefixed(all[i].root, all[i].name)
                      ELSE all[i].name,
             path |-> all[i].path]]

(* the skill map a roots/list_changed handler builds from the roots it     *)
(* received, the server having no skills directory of its own              *)
rootsSkillMap(roots, disk_) ==
    createSkillMap(addSkills(<<>>, discoverSkillsFromRoots(roots, disk_)))

(* getConfigState: CLI arguments and SKILLS_DIR override the config file *)
getActiveDirectoriesOf(overrideDirs_, configDirs_) ==
    IF overrideDirs_ # <<>> THEN overrideDirs_ ELSE configDirs_

InList(list, x) == \E i \in 1..Len(list) : list[i] = x

(* ---- state ---- *)
VARIABLES
    skillMap,              \* skillState.skillMap: name -> SKILL.md path
    uriToFilePaths,        \* manager.uriToFilePaths: URI -> set of paths
    uriOrder,              \* the keys of uriToFilePaths in insertion order
    filePathToUris,        \* manager.filePathToUris: path -> set of URIs
    watchers,              \* keys of manager.watchers
    pendingNotifications,  \* keys of manager.pendingNotifications
    timers,                \* live setTimeout timers per URI: remaining ms,
                           \* oldest first; the handle stored in
                           \* pendingNotifications is the newest one
    live,                  \* path -> number of open chokidar watchers
    quiet,                 \* per URI with a live timer: ms elapsed since
                           \* the last change event that affected the URI,
                           \* and whether more than one event affected it
                           \* since its timer was first set
    last,                  \* the operation that produced this state
    overrideDirs,          \* the directories of the CLI arguments or of
                           \* SKILLS_DIR, in order; fixed while the server runs
    configDirs,            \* config.skillDirectories of the config file
    watchedDirs,           \* the skillsDirs list watchSkillDirectories was
                           \* called with; empty when it set up no watcher
    disk,                  \* the SKILL.md files on disk
    refreshPending,        \* the number of live timers debouncedRefresh
                           \* has set; the handle in refreshTimeout is
                           \* the newest one
    burst,                 \* the watcher events that called
                           \* debouncedRefresh and that no refreshSkills
                           \* call has answered yet
    perSkillPrompts,       \* the keys of registry.perSkillPrompts
    serverPrompts,         \* the per-skill prompts the McpServer holds:
                           \* name -> whether the prompt is enabled and the
                           \* skillPath its callback captured
    clientRoots,           \* the roots of the client, in order
    rootsInFlight          \* the roots/list_changed handlers that await
                           \* server.server.listRoots(), oldest first, each
                           \* with the reply the client has written for it

promptVars == <<perSkillPrompts, serverPrompts>>
rootVars == <<clientRoots, rootsInFlight>>
dirVars ==
    <<overrideDirs, configDirs, watchedDirs, disk, refreshPending, burst,
      promptVars, rootVars>>

vars == <<skillMap, uriToFilePaths, uriOrder, filePathToUris, watchers,
          pendingNotifications, timers, live, quiet, last, dirVars>>

(* What the running operation has called so far: chokidar.watch (created), *)
(* watcher.close (closed), setTimeout (scheduled), clearTimeout (cleared)  *)
(* and onNotify (notified).                                                *)
NoCalls ==
    [created |-> {}, closed |-> {}, scheduled |-> {}, cleared |-> {},
     notified |-> {}]

(* The manager as one value, with the calls of the running operation. *)
Manager ==
    [uriToFilePaths |-> uriToFilePaths, order |-> uriOrder,
     filePathToUris |-> filePathToUris,
     watchers |-> watchers, pendingNotifications |-> pendingNotifications,
     timers |-> timers, live |-> live, calls |-> NoCalls]

createSubscriptionManager ==
    [uriToFilePaths |-> EmptyMap, order |-> <<>>, filePathToUris |-> EmptyMap,
     watchers |-> {}, pendingNotifications |-> {},
     timers |-> [u \in Uris |-> <<>>], live |-> EmptyMap, calls |-> NoCalls]

LiveCount(l, p) == IF p \in DOMAIN l THEN l[p] ELSE 0

(* chokidar.watch(filePath): one more open OS watcher on filePath *)
createWatcher(m, filePath) ==
    [m EXCEPT !.live = MapSet(@, filePath, LiveCount(@, filePath) + 1),
              !.calls.created = @ \cup {filePath}]

(* watcher.close() *)
closeWatcher(m, filePath) ==
    [m EXCEPT !.live = IF LiveCount(@, filePath) <= 1
                       THEN MapDelete(@, filePath)
                       ELSE MapSet(@, filePath, @[filePath] - 1),
              !.calls.closed = @ \cup {filePath}]

(* ---- subscribe ---- *)
(* subscribePath without the manager.watchers.has(filePath) test *)
subscribePathAlwaysWatch(m, uri, filePath) ==
    LET uris == MapGet(m.filePathToUris, filePath)
        m1 == [m EXCEPT !.filePathToUris = MapSet(@, filePath, uris \cup {uri})]
    IN  [createWatcher(m1, filePath) EXCEPT !.watchers = @ \cup {filePath}]

(* subscribePath that replaces the watcher a path already has *)
subscribePathRewatch(m, uri, filePath) ==
    LET uris == MapGet(m.filePathToUris, filePath)
        m1 == [m EXCEPT !.filePathToUris = MapSet(@, filePath, uris \cup {uri})]
        m2 == IF filePath \in m1.watchers THEN closeWatcher(m1, filePath)
              ELSE m1
    IN  [createWatcher(m2, filePath) EXCEPT !.watchers = @ \cup {filePath}]

(* body of the loop over filePaths *)
subscribePath(m, uri, filePath) ==
    LET uris == MapGet(m.filePathToUris, filePath)
        m1 == [m EXCEPT !.filePathToUris = MapSet(@, filePath, uris \cup {uri})]
    IN  IF filePath \notin m1.watchers
        THEN [createWatcher(m1, filePath) EXCEPT !.watchers = @ \cup {filePath}]
        ELSE m1

RECURSIVE subscribeLoop(_, _, _)
subscribeLoop(m, uri, filePaths) ==
    IF filePaths = {} THEN m
    ELSE LET filePath == CHOOSE p \in filePaths : TRUE
         IN  subscribeLoop(subscribePath(m, uri, filePath), uri,
                           filePaths \ {filePath})

(* subscribe that records the URI before it looks at the resolution *)
subscribeRecordFirst(m, uri, skillMap_) ==
    LET filePaths == resolveUriToFilePaths(uri, skillMap_)
        m1 == [m EXCEPT !.uriToFilePaths = MapSet(@, uri, filePaths),
                        !.order = KeySet(@, uri)]
    IN  IF filePaths = {} THEN [m |-> m1, ok |-> FALSE]
        ELSE [m |-> subscribeLoop(m1, uri, filePaths), ok |-> TRUE]

subscribe(m, uri, skillMap_) ==
    LET filePaths == resolveUriToFilePaths(uri, skillMap_) IN
    IF filePaths = {} THEN [m |-> m, ok |-> FALSE]
    ELSE [m |-> subscribeLoop(
                    [m EXCEPT !.uriToFilePaths = MapSet(@, uri, filePaths),
                              !.order = KeySet(@, uri)],
                    uri, filePaths),
          ok |-> TRUE]

(* ---- subscribe when chokidar.watch fails ---- *)
(* subscribe has no error handling around createWatcher, and createWatcher *)
(* registers no "error" listener.  A failing chokidar.watch either throws  *)
(* out of subscribe ("throws") or returns a watcher that never opens       *)
(* ("dead").  r is [m, thrown, failed].                                    *)
createWatcherDead(m, filePath) ==
    [m EXCEPT !.calls.created = @ \cup {filePath}]

subscribePathFailing(r, uri, filePath, failing, outcome) ==
    LET uris == MapGet(r.m.filePathToUris, filePath)
        m1 == [r.m EXCEPT
                 !.filePathToUris = MapSet(@, filePath, uris \cup {uri})]
    IN  IF filePath \in m1.watchers THEN [r EXCEPT !.m = m1]
        ELSE IF filePath \notin failing
        THEN [r EXCEPT !.m = [createWatcher(m1, filePath)
                                  EXCEPT !.watchers = @ \cup {filePath}]]
        ELSE IF outcome = "throws"
        THEN [r EXCEPT !.m = m1, !.thrown = TRUE,
                       !.failed = @ \cup {filePath}]
        ELSE [r EXCEPT !.m = [createWatcherDead(m1, filePath)
                                  EXCEPT !.watchers = @ \cup {filePath}],
                       !.failed = @ \cup {filePath}]

RECURSIVE subscribeLoopFailing(_, _, _, _, _)
subscribeLoopFailing(r, uri, filePaths, failing, outcome) ==
    IF filePaths = {} \/ r.thrown THEN r
    ELSE LET filePath == CHOOSE p \in filePaths : TRUE
         IN  subscribeLoopFailing(
                 subscribePathFailing(r, uri, filePath, failing, outcome),
                 uri, filePaths \ {filePath}, failing, outcome)

subscribeFailing(m, uri, skillMap_, failing, outcome) ==
    LET filePaths == resolveUriToFilePaths(uri, skillMap_) IN
    IF filePaths = {} THEN [m |-> m, ok |-> FALSE, thrown |-> FALSE, failed |-> {}]
    ELSE LET r == subscribeLoopFailing(
                      [m |-> [m EXCEPT !.uriToFilePaths = MapSet(@, uri, filePaths),
                                       !.order = KeySet(@, uri)],
                       thrown |-> FALSE, failed |-> {}],
                      uri, filePaths, failing, outcome)
         IN  [m |-> r.m, ok |-> ~r.thrown, thrown |-> r.thrown,
              failed |-> r.failed]

(* ---- timers ---- *)
(* clearTimeout(handle): the handle kept in pendingNotifications is the    *)
(* newest live timer of the URI                                            *)
clearTimeout(m, uri) ==
    [m EXCEPT !.timers[uri] = SubSeq(@, 1, Len(@) - 1),
              !.calls.cleared = @ \cup {uri}]

(* ---- unsubscribe ---- *)
(* unsubscribePath that leaves the URI in the set of a path other URIs     *)
(* still depend on                                                         *)
unsubscribePathKeepShared(m, uri, filePath) ==
    IF filePath \in DOMAIN m.filePathToUris
    THEN LET uris == m.filePathToUris[filePath] \ {uri} IN
         IF uris = {}
         THEN LET m1 == [m EXCEPT !.filePathToUris = MapDelete(@, filePath)]
              IN  IF filePath \in m1.watchers
                  THEN [closeWatcher(m1, filePath)
                            EXCEPT !.watchers = @ \ {filePath}]
                  ELSE m1
         ELSE m
    ELSE m

(* unsubscribePath that keeps the watcher of a path without dependents *)
unsubscribePathKeepWatcher(m, uri, filePath) ==
    IF filePath \in DOMAIN m.filePathToUris
    THEN LET uris == m.filePathToUris[filePath] \ {uri} IN
         IF uris = {}
         THEN [m EXCEPT !.filePathToUris = MapDelete(@, filePath)]
         ELSE [m EXCEPT !.filePathToUris = MapSet(@, filePath, uris)]
    ELSE m

(* unsubscribePath that closes the watcher of the path although other     *)
(* URIs still depend on it                                                 *)
unsubscribePathCloseShared(m, uri, filePath) ==
    IF filePath \in DOMAIN m.filePathToUris
    THEN LET uris == m.filePathToUris[filePath] \ {uri}
             m1 == IF uris = {}
                   THEN [m EXCEPT !.filePathToUris = MapDelete(@, filePath)]
                   ELSE [m EXCEPT !.filePathToUris = MapSet(@, filePath, uris)]
         IN  IF filePath \in m1.watchers
             THEN [closeWatcher(m1, filePath) EXCEPT !.watchers = @ \ {filePath}]
             ELSE m1
    ELSE m

(* body of the loop over the paths of the URI *)
unsubscribePath(m, uri, filePath) ==
    IF filePath \in DOMAIN m.filePathToUris
    THEN LET uris == m.filePathToUris[filePath] \ {uri} IN
         IF uris = {}
         THEN LET m1 == [m EXCEPT !.filePathToUris = MapDelete(@, filePath)]
              IN  IF filePath \in m1.watchers
                  THEN [closeWatcher(m1, filePath)
                            EXCEPT !.watchers = @ \ {filePath}]
                  ELSE m1
         ELSE [m EXCEPT !.filePathToUris = MapSet(@, filePath, uris)]
    ELSE m

RECURSIVE unsubscribeLoop(_, _, _)
unsubscribeLoop(m, uri, filePaths) ==
    IF filePaths = {} THEN m
    ELSE LET filePath == CHOOSE p \in filePaths : TRUE
         IN  unsubscribeLoop(unsubscribePath(m, uri, filePath), uri,
                             filePaths \ {filePath})

unsubscribe(m, uri) ==
    IF uri \notin DOMAIN m.uriToFilePaths THEN m
    ELSE LET m1 == unsubscribeLoop(m, uri, m.uriToFilePaths[uri])
             m2 == [m1 EXCEPT !.uriToFilePaths = MapDelete(@, uri),
                              !.order = KeyDelete(@, uri)]
         IN  IF uri \in m2.pendingNotifications
             THEN [clearTimeout(m2, uri)
                       EXCEPT !.pendingNotifications = @ \ {uri}]
             ELSE m2

(* ---- createWatcher.handleChange ---- *)
isMatch(normalizedPath, watchedPath) ==
    \/ normalizedPath = watchedPath
    \/ Len(watchedPath) < Len(normalizedPath) /\ IsPrefix(watchedPath, normalizedPath)

(* affectedUris that matches the changed path itself only *)
affectedUrisExact(m, changedPath) ==
    UNION {m.filePathToUris[w] :
               w \in {w \in DOMAIN m.filePathToUris :
                          normalize(changedPath) = w}}

(* the URIs whose timer one change (re)starts *)
affectedUris(m, changedPath) ==
    UNION {m.filePathToUris[w] :
               w \in {w \in DOMAIN m.filePathToUris :
                          isMatch(normalize(changedPath), w)}}

(* debounce that sets the new timeout without clearing the existing one *)
debounceNoClear(m, uri) ==
    [m EXCEPT !.timers[uri] = Append(@, DEBOUNCE_MS),
              !.pendingNotifications = @ \cup {uri},
              !.calls.scheduled = @ \cup {uri}]

(* clear the existing timeout of the URI, set a new one *)
debounce(m, uri) ==
    LET m1 == IF uri \in m.pendingNotifications THEN clearTimeout(m, uri) ELSE m
    IN  [m1 EXCEPT !.timers[uri] = Append(@, DEBOUNCE_MS),
                   !.pendingNotifications = @ \cup {uri},
                   !.calls.scheduled = @ \cup {uri}]

RECURSIVE debounceLoop(_, _)
debounceLoop(m, uris) ==
    IF uris = {} THEN m
    ELSE LET uri == CHOOSE u \in uris : TRUE
         IN  debounceLoop(debounce(m, uri), uris \ {uri})

handleChange(m, changedPath) == debounceLoop(m, affectedUris(m, changedPath))

(* the setTimeout callback when onNotify fails: the pending entry was      *)
(* deleted before the call, nothing reaches the client                     *)
timerCallbackThrows(m, uri, i) ==
    [m EXCEPT !.timers[uri] = SubSeq(@, 1, i - 1) \o SubSeq(@, i + 1, Len(@)),
              !.pendingNotifications = @ \ {uri}]

(* a timer callback that forgets the pending entry and sends nothing *)
timerCallbackSilent(m, uri, i) ==
    [m EXCEPT !.timers[uri] = SubSeq(@, 1, i - 1) \o SubSeq(@, i + 1, Len(@)),
              !.pendingNotifications = @ \ {uri}]

(* the setTimeout callback of timer number i of the URI *)
timerCallback(m, uri, i) ==
    [m EXCEPT !.timers[uri] = SubSeq(@, 1, i - 1) \o SubSeq(@, i + 1, Len(@)),
              !.pendingNotifications = @ \ {uri},
              !.calls.notified = @ \cup {uri}]

(* ---- refreshSubscriptions ---- *)
(* refreshRemovePath that keeps the watcher of a path without dependents *)
refreshRemovePathNoClose(m, uri, oldPath) ==
    IF oldPath \in DOMAIN m.filePathToUris
    THEN LET uris == m.filePathToUris[oldPath] \ {uri} IN
         IF uris = {}
         THEN [m EXCEPT !.filePathToUris = MapDelete(@, oldPath)]
         ELSE [m EXCEPT !.filePathToUris = MapSet(@, oldPath, uris)]
    ELSE m

(* the removed paths of one URI *)
refreshRemovePath(m, uri, oldPath) ==
    IF oldPath \in DOMAIN m.filePathToUris
    THEN LET uris == m.filePathToUris[oldPath] \ {uri} IN
         IF uris = {}
         THEN LET m1 == [m EXCEPT !.filePathToUris = MapDelete(@, oldPath)]
              IN  IF oldPath \in m1.watchers
                  THEN [closeWatcher(m1, oldPath)
                            EXCEPT !.watchers = @ \ {oldPath}]
                  ELSE m1
         ELSE [m EXCEPT !.filePathToUris = MapSet(@, oldPath, uris)]
    ELSE m

RECURSIVE refreshRemoveLoop(_, _, _)
refreshRemoveLoop(m, uri, paths) ==
    IF paths = {} THEN m
    ELSE LET oldPath == CHOOSE p \in paths : TRUE
         IN  refreshRemoveLoop(refreshRemovePath(m, uri, oldPath), uri,
                               paths \ {oldPath})

(* refreshAddPath that watches the new path without recording the URI in  *)
(* the set of the path                                                     *)
refreshAddPathNoReverse(m, uri, newPath) ==
    IF newPath \notin m.watchers
    THEN [createWatcher(m, newPath) EXCEPT !.watchers = @ \cup {newPath}]
    ELSE m

(* the added paths of one URI *)
refreshAddPath(m, uri, newPath) ==
    LET uris == MapGet(m.filePathToUris, newPath)
        m1 == [m EXCEPT !.filePathToUris = MapSet(@, newPath, uris \cup {uri})]
    IN  IF newPath \notin m1.watchers
        THEN [createWatcher(m1, newPath) EXCEPT !.watchers = @ \cup {newPath}]
        ELSE m1

RECURSIVE refreshAddLoop(_, _, _)
refreshAddLoop(m, uri, paths) ==
    IF paths = {} THEN m
    ELSE LET newPath == CHOOSE p \in paths : TRUE
         IN  refreshAddLoop(refreshAddPath(m, uri, newPath), uri,
                            paths \ {newPath})

(* refreshUri that keeps the entry of a URI that resolves to nothing *)
refreshUriNoDrop(m, uri, skillMap_) ==
    LET oldPaths == m.uriToFilePaths[uri]
        newPaths == resolveUriToFilePaths(uri, skillMap_)
        m1 == refreshRemoveLoop(m, uri, oldPaths \ newPaths)
        m2 == refreshAddLoop(m1, uri, newPaths \ oldPaths)
    IN  IF newPaths = {} THEN m2
        ELSE [m2 EXCEPT !.uriToFilePaths = MapSet(@, uri, newPaths)]

(* refreshUri that releases every old path and acquires every new one *)
refreshUriNaive(m, uri, skillMap_) ==
    LET oldPaths == m.uriToFilePaths[uri]
        newPaths == resolveUriToFilePaths(uri, skillMap_)
        m1 == refreshRemoveLoop(m, uri, oldPaths)
        m2 == refreshAddLoop(m1, uri, newPaths)
    IN  IF newPaths = {}
        THEN [m2 EXCEPT !.uriToFilePaths = MapDelete(@, uri),
                        !.order = KeyDelete(@, uri)]
        ELSE [m2 EXCEPT !.uriToFilePaths = MapSet(@, uri, newPaths)]

(* one iteration of the loop over manager.uriToFilePaths.keys() *)
refreshUri(m, uri, skillMap_) ==
    LET oldPaths == m.uriToFilePaths[uri]
        newPaths == resolveUriToFilePaths(uri, skillMap_)
        m1 == refreshRemoveLoop(m, uri, oldPaths \ newPaths)
        m2 == refreshAddLoop(m1, uri, newPaths \ oldPaths)
    IN  IF newPaths = {}
        THEN [m2 EXCEPT !.uriToFilePaths = MapDelete(@, uri),
                        !.order = KeyDelete(@, uri)]
        ELSE [m2 EXCEPT !.uriToFilePaths = MapSet(@, uri, newPaths)]

(* the loop over manager.uriToFilePaths.keys(), keys being the keys not    *)
(* yet visited                                                             *)
RECURSIVE refreshLoop(_, _, _)
refreshLoop(m, skillMap_, keys) ==
    IF keys = <<>> THEN m
    ELSE refreshLoop(refreshUri(m, Head(keys), skillMap_), skillMap_, Tail(keys))

refreshSubscriptions(m, skillMap_) == refreshLoop(m, skillMap_, m.order)


(* ---- history ---- *)
NoUri == <<>>
NoPre ==
    [skillMap |-> EmptyMap, uriToFilePaths |-> EmptyMap,
     filePathToUris |-> EmptyMap, watchers |-> {}]
(* the state an operation started from *)
Pre ==
    [skillMap |-> skillMap, uriToFilePaths |-> uriToFilePaths,
     filePathToUris |-> filePathToUris, watchers |-> watchers]
NoQuiet == [ms |-> 0, coalesced |-> FALSE]
(* op: the operation; uri, path: its argument; ok: subscribe succeeded;    *)
(* error: the message of the Error the request handler threw, or "none";   *)
(* failed: the paths whose chokidar.watch call failed;                     *)
(* paths: the paths a call of resolveUriToFilePaths returned;              *)
(* dirs, skills: the argument and the result of a call of                  *)
(* discoverSkillsFromDirs;                                                 *)
(* name: the name of the prompt a prompts/get request asked for;           *)
(* steps: the statements of refreshSkills that ran;                        *)
(* events: for a refresh by the directory watcher, the watcher events it   *)
(* answers;                                                                *)
(* by: what called refreshSkills, the directory watcher or the             *)
(* skill-config tools;                                                     *)
(* calls: what it called; pre: the state it started from; quiet: for a     *)
(* notification, the ms since the last event it answers and whether it     *)
(* answers more than one event;                                            *)
(* seq: "roundtrip" for unsubscribe(I) right after subscribe(I) (pre is    *)
(* then the state before the subscribe), "twice" for unsubscribe(I) right  *)
(* after unsubscribe(I), "repeat" for a refresh right      *)
(* after a refresh with the same skill map, "afterUnsub" for a change      *)
(* event right after unsubscribe(uri) removed a subscription (pre is then  *)
(* the state before the unsubscribe).                                      *)
NoLast ==
    [op |-> "init", uri |-> NoUri, path |-> <<>>, ok |-> TRUE,
     error |-> "none", failed |-> {}, paths |-> {}, by |-> "none",
     dirs |-> <<>>, skills |-> <<>>, events |-> 0, name |-> "",
     steps |-> <<>>,
     calls |-> NoCalls, pre |-> NoPre, quiet |-> NoQuiet, seq |-> "none"]

Min(x, y) == IF x <= y THEN x ELSE y
Max(x, y) == IF x >= y THEN x ELSE y

(* quiet after an operation that left the timers ts and in which a change  *)
(* event (re)started the timers of the URIs in scheduled                   *)
NextQuiet(ts, scheduled) ==
    [u \in {u \in Uris : ts[u] # <<>>} |->
        IF u \in scheduled
        THEN [ms |-> 0, coalesced |-> u \in DOMAIN quiet]
        ELSE quiet[u]]

(* install the manager m as the next state *)
Install(m) ==
    /\ uriToFilePaths' = m.uriToFilePaths
    /\ uriOrder' = m.order
    /\ filePathToUris' = m.filePathToUris
    /\ watchers' = m.watchers
    /\ pendingNotifications' = m.pendingNotifications
    /\ timers' = m.timers
    /\ live' = m.live
    /\ quiet' = NextQuiet(m.timers, m.calls.scheduled)

(* ---- operations ---- *)
InitManager ==
    /\ uriToFilePaths = createSubscriptionManager.uriToFilePaths
    /\ uriOrder = createSubscriptionManager.order
    /\ filePathToUris = createSubscriptionManager.filePathToUris
    /\ watchers = createSubscriptionManager.watchers
    /\ pendingNotifications = createSubscriptionManager.pendingNotifications
    /\ timers = createSubscriptionManager.timers
    /\ live = createSubscriptionManager.live
    /\ quiet = EmptyMap
    /\ last = NoLast

(* a client without roots *)
InitNoRoots ==
    /\ clientRoots = <<>>
    /\ rootsInFlight = <<>>

(* the directory layer at rest: the specifications of the subscription     *)
(* engine take the skill maps that discovery yields as their input         *)
InitNoDirs ==
    /\ overrideDirs = <<>>
    /\ configDirs = <<>>
    /\ watchedDirs = <<>>
    /\ disk = {}
    /\ refreshPending = 0
    /\ burst = 0
    /\ perSkillPrompts = {}
    /\ serverPrompts = EmptyMap
    /\ InitNoRoots

(* main: the skills discovered at startup, an empty manager *)
Init ==
    /\ skillMap \in TimerStores
    /\ InitManager
    /\ InitNoDirs

InitGraph ==
    /\ skillMap \in Stores
    /\ InitManager
    /\ InitNoDirs

(* ---- the directory layer ---- *)
getActiveDirectories == getActiveDirectoriesOf(overrideDirs, configDirs)

(* main: the active directories are read, the skills are discovered, and   *)
(* watchSkillDirectories is called with the list if it is not empty        *)
InitDirs ==
    /\ overrideDirs \in {<<>>, << <<"r1">> >>}
    /\ configDirs \in DirLists
    /\ disk \in SUBSET DiskPaths
    /\ skillMap = createSkillMap(
                      discoverSkillsFromDirs(getActiveDirectories, disk))
    /\ watchedDirs = getActiveDirectories
    /\ refreshPending = 0
    /\ burst = 0
    /\ perSkillPrompts = DOMAIN skillMap
    /\ serverPrompts = registerSkillPrompts(skillMap)
    /\ InitNoRoots
    /\ InitManager

(* discovery on its own: any set of SKILL.md files on disk, any list of    *)
(* directories                                                             *)
InitDiscover ==
    /\ disk \in SUBSET ScanPaths
    /\ overrideDirs = <<>>
    /\ configDirs = <<>>
    /\ watchedDirs = <<>>
    /\ refreshPending = 0
    /\ burst = 0
    /\ perSkillPrompts = {}
    /\ serverPrompts = EmptyMap
    /\ InitNoRoots
    /\ skillMap = EmptyMap
    /\ InitManager

DiscoverCall(skillsDirs) ==
    /\ last' = [NoLast EXCEPT !.op = "discover", !.dirs = skillsDirs,
                              !.skills = discoverSkillsFromDirs(skillsDirs, disk)]
    /\ UNCHANGED <<skillMap, uriToFilePaths, uriOrder, filePathToUris,
                   watchers, pendingNotifications, timers, live, quiet,
                   dirVars>>

(* the statements of refreshSkills that change state or send something,   *)
(* in their order                                                          *)
RefreshSteps ==
    <<"skillMap", "skillTool.update", "refreshPrompts", "refreshSubscriptions",
      "sendToolListChanged", "sendResourceListChanged">>

(* refreshSkills(skillsDirs, ...): rediscover, install the map, reconcile *)
(* When refreshPrompts throws, refreshSkills ends there: in the timer of   *)
(* the directory watcher the exception is uncaught and ends the process,   *)
(* in a skill-config tool the handler catches it and reports the failure.  *)
RefreshSkillsFrom(skillsDirs, by) ==
    \E skills \in {discoverSkillsFromDirs(skillsDirs, disk)} :
    \E newSkillMap \in {createSkillMap(skills)} :
    \E r \in {refreshPrompts(perSkillPrompts, serverPrompts, skills)} :
    \E m \in {IF r.threw THEN Manager
               ELSE refreshSubscriptions(Manager, newSkillMap)} :
        /\ skillMap' = newSkillMap
        /\ perSkillPrompts' = r.registry
        /\ serverPrompts' = r.server
        /\ Install(m)
        /\ last' = [NoLast EXCEPT
                      !.op = IF r.threw /\ by = "watcher" THEN "exit"
                             ELSE "refresh",
                      !.steps = IF r.threw
                                THEN SubSeq(RefreshSteps, 1, 3)
                                ELSE RefreshSteps,
                      !.by = by,
                      !.ok = ~r.threw,
                      !.error = IF r.threw THEN "Prompt is already registered"
                                ELSE "none",
                      !.events = IF by = "watcher" THEN burst ELSE 0,
                      !.calls = m.calls, !.pre = Pre]

(* skill-config add-directory tool: addDirectoryToConfig, then the         *)
(* onDirectoriesChanged callback of main                                   *)
AddDirectory(dir) ==
    /\ ~InList(configDirs, dir)
    /\ configDirs' = Append(configDirs, dir)
    /\ RefreshSkillsFrom(getActiveDirectoriesOf(overrideDirs, configDirs'),
                         "config")
    /\ UNCHANGED <<overrideDirs, watchedDirs, disk, refreshPending, burst,
                   rootVars>>

(* skill-config remove-directory tool *)
RemoveDirectory(dir) ==
    /\ InList(configDirs, dir)
    /\ configDirs' = SelectSeq(configDirs, LAMBDA d : d # dir)
    /\ RefreshSkillsFrom(getActiveDirectoriesOf(overrideDirs, configDirs'),
                         "config")
    /\ UNCHANGED <<overrideDirs, watchedDirs, disk, refreshPending, burst,
                   rootVars>>

(* the chokidar watcher of watchSkillDirectories reports the path *)
Watched(p) == \E i \in 1..Len(watchedDirs) : IsPrefix(watchedDirs[i], p)

(* debouncedRefresh: clear the timer in refreshTimeout, set a new one;     *)
(* the number of live timers after the call                                *)
debouncedRefreshNoClear(pending) == pending + 1

debouncedRefresh(pending) == (IF pending > 0 THEN pending - 1 ELSE 0) + 1

(* A SKILL.md is added, changed or removed on disk.  The chokidar watcher  *)
(* of watchSkillDirectories reports it when it lies under one of the       *)
(* directories the watcher was set up with, and the handler calls          *)
(* debouncedRefresh.                                                       *)
DiskChange(p, kind) ==
    /\ kind = "add" => p \notin disk
    /\ kind \in {"change", "unlink"} => p \in disk
    /\ disk' = IF kind = "add" THEN disk \cup {p}
               ELSE IF kind = "unlink" THEN disk \ {p} ELSE disk
    /\ Watched(p) => burst < MaxBurst
    /\ refreshPending' =
           IF Watched(p) THEN debouncedRefresh(refreshPending)
           ELSE refreshPending
    /\ burst' = IF Watched(p) THEN burst + 1 ELSE burst
    /\ last' = [NoLast EXCEPT !.op = "diskchange", !.path = p]
    /\ UNCHANGED <<skillMap, uriToFilePaths, uriOrder, filePathToUris,
                   watchers, pendingNotifications, timers, live, quiet,
                   overrideDirs, configDirs, watchedDirs, promptVars,
                   rootVars>>

(* the refresh timer fires: refreshSkills with the list the watcher was    *)
(* set up with                                                             *)
RefreshTimerFire ==
    /\ refreshPending > 0
    /\ refreshPending' = refreshPending - 1
    /\ burst' = 0
    /\ RefreshSkillsFrom(watchedDirs, "watcher")
    /\ UNCHANGED <<overrideDirs, configDirs, watchedDirs, disk, rootVars>>

(* ---- roots of the client ---- *)
(* main with a client that has roots: syncSkills installed the skills of   *)
(* the roots and set up the roots/list_changed handler                     *)
InitRoots ==
    /\ clientRoots \in DirLists
    /\ rootsInFlight = <<>>
    /\ disk \in SUBSET RootPaths
    /\ skillMap = rootsSkillMap(clientRoots, disk)
    /\ overrideDirs = <<>>
    /\ configDirs = <<>>
    /\ watchedDirs = <<>>
    /\ refreshPending = 0
    /\ burst = 0
    /\ perSkillPrompts = {}
    /\ serverPrompts = EmptyMap
    /\ InitManager

(* The client changes its roots and sends roots/list_changed; the handler  *)
(* starts and awaits server.server.listRoots().                            *)
RootsListChanged(newRoots) ==
    /\ newRoots # clientRoots
    /\ Len(rootsInFlight) < MaxHandlers
    /\ clientRoots' = newRoots
    /\ rootsInFlight' = Append(rootsInFlight, [answered |-> FALSE, roots |-> <<>>])
    /\ last' = [NoLast EXCEPT !.op = "rootsChanged", !.dirs = newRoots]
    /\ UNCHANGED <<skillMap, uriToFilePaths, uriOrder, filePathToUris,
                   watchers, pendingNotifications, timers, live, quiet,
                   overrideDirs, configDirs, watchedDirs, disk, refreshPending,
                   burst, promptVars>>

(* The client reads its roots for the reply to one roots/list request.     *)
(* Replies are matched to requests by id: the client may take up the       *)
(* requests and send the replies in any order.                             *)
ListRootsAnswered(h) ==
    /\ h \in 1..Len(rootsInFlight)
    /\ ~rootsInFlight[h].answered
    /\ rootsInFlight' =
           [rootsInFlight EXCEPT ![h] = [answered |-> TRUE, roots |-> clientRoots]]
    /\ last' = [NoLast EXCEPT !.op = "rootsAnswered", !.dirs = clientRoots]
    /\ UNCHANGED <<skillMap, uriToFilePaths, uriOrder, filePathToUris,
                   watchers, pendingNotifications, timers, live, quiet,
                   overrideDirs, configDirs, watchedDirs, disk, refreshPending,
                   burst, promptVars, clientRoots>>

(* A reply reaches the server and its handler goes on: it discovers the    *)
(* skills of the roots it received, and the onSkillsChanged callback of    *)
(* main installs the skill map and reconciles the subscriptions.  The      *)
(* handler compares its result with nothing: whichever reply arrives last  *)
(* is installed last.                                                      *)
RootsHandlerResume(h) ==
    /\ h \in 1..Len(rootsInFlight)
    /\ rootsInFlight[h].answered
    /\ \E newSkillMap \in {rootsSkillMap(rootsInFlight[h].roots, disk)} :
       \E m \in {refreshSubscriptions(Manager, newSkillMap)} :
           /\ skillMap' = newSkillMap
           /\ Install(m)
           /\ last' = [NoLast EXCEPT !.op = "roots",
                                     !.dirs = rootsInFlight[h].roots,
                                     !.calls = m.calls, !.pre = Pre]
    /\ rootsInFlight' =
           [i \in 1..(Len(rootsInFlight) - 1) |->
               IF i < h THEN rootsInFlight[i] ELSE rootsInFlight[i + 1]]
    /\ UNCHANGED <<overrideDirs, configDirs, watchedDirs, disk, refreshPending,
                   burst, promptVars, clientRoots>>

(* prompts/get of a per-skill prompt: the server runs the callback of the  *)
(* enabled prompt of that name, which loads the skillPath it captured      *)
GetPrompt(name) ==
    /\ name \in DOMAIN serverPrompts
    /\ serverPrompts[name].enabled
    /\ last' = [NoLast EXCEPT !.op = "prompt", !.name = name,
                              !.path = serverPrompts[name].skillPath]
    /\ UNCHANGED <<skillMap, uriToFilePaths, uriOrder, filePathToUris,
                   watchers, pendingNotifications, timers, live, quiet,
                   dirVars>>

(* resources/subscribe request handler *)
SubscribeRequest(uri) ==
    /\ uri \in DOMAIN uriToFilePaths
         \/ Cardinality(DOMAIN uriToFilePaths) < MaxSubs
    /\ LET r == IF Head(uri) # SKILL \/ resolveThrows(uri)
                THEN [m |-> Manager, ok |-> FALSE]
                ELSE subscribe(Manager, uri, skillMap)
       IN  /\ Install(r.m)
           /\ last' = [NoLast EXCEPT
                         !.op = "subscribe", !.uri = uri, !.ok = r.ok,
                         !.error = IF Head(uri) # SKILL
                                   THEN "Unsupported URI scheme"
                                   ELSE IF resolveThrows(uri)
                                   THEN "URIError: URI malformed"
                                   ELSE IF ~r.ok THEN "Resource not found"
                                   ELSE "none",
                         !.calls = r.m.calls, !.pre = Pre]
    /\ UNCHANGED <<skillMap, dirVars>>

(* an unsubscribe handler that answers a URI without subscription with an  *)
(* error                                                                   *)
UnsubscribeRequestStrict(uri) ==
    /\ LET m == unsubscribe(Manager, uri)
           roundtrip == last.op = "subscribe" /\ last.uri = uri
           twice == last.op = "unsubscribe" /\ last.uri = uri
       IN  /\ Install(m)
           /\ last' = [NoLast EXCEPT
                         !.op = "unsubscribe", !.uri = uri,
                         !.error = IF uri \in DOMAIN uriToFilePaths
                                   THEN "none" ELSE "Resource not found",
                         !.calls = m.calls,
                         !.pre = IF roundtrip THEN last.pre ELSE Pre,
                         !.seq = IF roundtrip THEN "roundtrip"
                                 ELSE IF twice THEN "twice" ELSE "none"]
    /\ UNCHANGED <<skillMap, dirVars>>

(* a call of resolveUriToFilePaths with the current skill map *)
ResolveCall(uri) ==
    /\ last' = [NoLast EXCEPT
                  !.op = "resolve", !.uri = uri,
                  !.ok = ~resolveThrows(uri),
                  !.error = IF resolveThrows(uri)
                            THEN "URIError: URI malformed" ELSE "none",
                  !.paths = IF resolveThrows(uri) THEN {}
                            ELSE resolveUriToFilePaths(uri, skillMap)]
    /\ UNCHANGED <<skillMap, uriToFilePaths, uriOrder, filePathToUris,
                   watchers, pendingNotifications, timers, live, quiet,
                   dirVars>>

(* resources/subscribe request handler when chokidar.watch fails for the   *)
(* paths in failing                                                        *)
SubscribeFailing(uri, failing, outcome) ==
    /\ uri \in DOMAIN uriToFilePaths
         \/ Cardinality(DOMAIN uriToFilePaths) < MaxSubs
    /\ Head(uri) = SKILL
    /\ failing # {}
    /\ failing \subseteq resolveUriToFilePaths(uri, skillMap) \ watchers
    /\ LET r == subscribeFailing(Manager, uri, skillMap, failing, outcome)
       IN  /\ Install(r.m)
           /\ last' = [NoLast EXCEPT
                         !.op = "subscribe", !.uri = uri, !.ok = r.ok,
                         !.error = IF r.thrown THEN "watch failed"
                                   ELSE IF ~r.ok THEN "Resource not found"
                                   ELSE "none",
                         !.failed = r.failed,
                         !.calls = r.m.calls, !.pre = Pre]
    /\ UNCHANGED <<skillMap, dirVars>>

(* resources/unsubscribe request handler *)
UnsubscribeRequest(uri) ==
    /\ LET m == unsubscribe(Manager, uri)
           roundtrip == last.op = "subscribe" /\ last.uri = uri
           twice == last.op = "unsubscribe" /\ last.uri = uri
       IN  /\ Install(m)
           /\ last' = [NoLast EXCEPT
                         !.op = "unsubscribe", !.uri = uri,
                         !.calls = m.calls,
                         !.pre = IF roundtrip THEN last.pre ELSE Pre,
                         !.seq = IF roundtrip THEN "roundtrip"
                                 ELSE IF twice THEN "twice" ELSE "none"]
    /\ UNCHANGED <<skillMap, dirVars>>

(* refreshSkills (and the syncSkills callback): install the rediscovered   *)
(* skill map, then reconcile the subscriptions in the same turn.           *)
RefreshSkills(newSkillMap) ==
    /\ skillMap' = newSkillMap
    /\ LET m == refreshSubscriptions(Manager, newSkillMap)
       IN  /\ Install(m)
           /\ last' = [NoLast EXCEPT
                         !.op = "refresh", !.calls = m.calls, !.pre = Pre,
                         !.seq = IF last.op = "refresh" /\ skillMap = newSkillMap
                                 THEN "repeat" ELSE "none"]
    /\ UNCHANGED dirVars

(* an open chokidar watcher reports add / change / unlink of changedPath *)
FsEvent(changedPath) ==
    /\ \E w \in DOMAIN live : isMatch(changedPath, w)
    /\ LET m == handleChange(Manager, changedPath)
           afterUnsub == /\ last.op = "unsubscribe"
                         /\ last.uri \in DOMAIN last.pre.uriToFilePaths
                         /\ last.seq = "none"
       IN  /\ Install(m)
           /\ last' = [NoLast EXCEPT
                         !.op = "event", !.path = changedPath,
                         !.calls = m.calls,
                         !.uri = IF afterUnsub THEN last.uri ELSE NoUri,
                         !.pre = IF afterUnsub THEN last.pre ELSE NoPre,
                         !.seq = IF afterUnsub THEN "afterUnsub" ELSE "none"]
    /\ UNCHANGED <<skillMap, dirVars>>

(* time passes: every live timer gets TickMs closer to its expiry *)
Tick ==
    /\ \E u \in Uris : \E i \in 1..Len(timers[u]) : timers[u][i] > 0
    /\ timers' = [u \in Uris |->
                    [i \in 1..Len(timers[u]) |-> Max(0, timers[u][i] - TickMs)]]
    /\ quiet' = [u \in DOMAIN quiet |->
                    [quiet[u] EXCEPT !.ms = Min(DEBOUNCE_MS, @ + TickMs)]]
    /\ last' = [NoLast EXCEPT !.op = "tick"]
    /\ UNCHANGED <<skillMap, uriToFilePaths, uriOrder, filePathToUris,
                   watchers, pendingNotifications, live, dirVars>>

(* an expired timer runs its callback: the notification for uri is sent *)
TimerFire(uri, i) ==
    /\ i \in 1..Len(timers[uri])
    /\ timers[uri][i] = 0
    /\ LET m == timerCallback(Manager, uri, i)
       IN  /\ Install(m)
           /\ last' = [NoLast EXCEPT !.op = "notify", !.uri = uri,
                                     !.calls = m.calls, !.quiet = quiet[uri]]
    /\ UNCHANGED <<skillMap, dirVars>>

(* An expired timer runs its callback and onNotify fails: the callback has  *)
(* deleted the pending entry, sendNotification neither awaits nor catches  *)
(* server.server.notification, and the callback has no try/catch, so the   *)
(* failure leaves the callback as an uncaught exception or an unhandled    *)
(* promise rejection.  Node then either ends the process ("exit") or goes  *)
(* on after a warning ("warn"), depending on its version and flags.        *)
TimerFireFailing(uri, i, outcome) ==
    /\ i \in 1..Len(timers[uri])
    /\ timers[uri][i] = 0
    /\ LET m == timerCallbackThrows(Manager, uri, i)
       IN  /\ Install(m)
           /\ last' = [NoLast EXCEPT
                         !.op = IF outcome = "exit" THEN "exit" ELSE "notify",
                         !.uri = uri, !.ok = FALSE,
                         !.error = "uncaught: notification failed",
                         !.calls = m.calls, !.quiet = quiet[uri]]
    /\ UNCHANGED <<skillMap, dirVars>>

(* the whole engine, on the URIs of one skill *)
Next ==
    \/ \E uri \in TimerUris : SubscribeRequest(uri)
    \/ \E uri \in TimerUris : UnsubscribeRequest(uri)
    \/ \E newSkillMap \in TimerStores : RefreshSkills(newSkillMap)
    \/ \E changedPath \in EventPaths : FsEvent(changedPath)
    \/ Tick
    \/ \E uri \in TimerUris : \E i \in 1..2 : TimerFire(uri, i)

Spec == Init /\ [][Next]_vars

(* the event loop runs every timer: time does not stop while a timer is    *)
(* live, and a timer that has expired runs its callback                    *)
Fairness ==
    /\ WF_vars(Tick)
    /\ \A uri \in LiveUris : WF_vars(\E i \in 1..2 : TimerFire(uri, i))

(* the engine on the manifest URI and the directory URI of one skill *)
NextLive ==
    \/ \E uri \in LiveUris : SubscribeRequest(uri)
    \/ \E uri \in LiveUris : UnsubscribeRequest(uri)
    \/ \E newSkillMap \in TimerStores : RefreshSkills(newSkillMap)
    \/ \E changedPath \in EventPaths : FsEvent(changedPath)
    \/ Tick
    \/ \E uri \in LiveUris : \E i \in 1..2 : TimerFire(uri, i)

SpecLive == Init /\ [][NextLive]_vars /\ Fairness

(* the same engine with notifications that may fail; nothing runs once the *)
(* process has ended                                                       *)
NextNotify ==
    /\ last.op # "exit"
    /\ \/ NextLive
       \/ \E uri \in LiveUris : \E i \in 1..2 : \E outcome \in {"exit", "warn"} :
              TimerFireFailing(uri, i, outcome)

SpecNotify == Init /\ [][NextNotify]_vars

(* the subscription graph alone (no file event reaches the server), on the *)
(* URIs of two skills                                                      *)
NextGraph ==
    \/ \E uri \in Uris : SubscribeRequest(uri)
    \/ \E uri \in Uris : UnsubscribeRequest(uri)
    \/ \E newSkillMap \in Stores : RefreshSkills(newSkillMap)

SpecGraph == InitGraph /\ [][NextGraph]_vars

(* URI resolution and the subscriptions made from it, on all forms of URI *)
NextResolve ==
    \/ \E uri \in PathUris : ResolveCall(uri)
    \/ \E uri \in FileUris : SubscribeRequest(uri)
    \/ \E newSkillMap \in Stores : RefreshSkills(newSkillMap)

SpecResolve == InitGraph /\ [][NextResolve]_vars

(* calls of discoverSkillsFromDirs *)
NextDiscover == \E skillsDirs \in DirLists : DiscoverCall(skillsDirs)

SpecDiscover == InitDiscover /\ [][NextDiscover]_vars

(* the directory layer: configuration through the skill-config tools,     *)
(* changes on disk and the refresh timer of the directory watcher          *)
NextDirs ==
    /\ last.op # "exit"
    /\ \/ \E dir \in RootDirs : AddDirectory(dir)
       \/ \E dir \in RootDirs : RemoveDirectory(dir)
       \/ \E p \in DiskPaths : \E kind \in {"add", "change", "unlink"} :
              DiskChange(p, kind)
       \/ RefreshTimerFire

SpecDirs == InitDirs /\ [][NextDirs]_vars

(* the event loop runs the refresh timer *)
SpecDirsLive == SpecDirs /\ WF_vars(RefreshTimerFire)

(* a client that changes its roots, with a subscription to all skills *)
NextRoots ==
    \/ \E newRoots \in DirLists : RootsListChanged(newRoots)
    \/ \E h \in 1..MaxHandlers : ListRootsAnswered(h)
    \/ \E h \in 1..MaxHandlers : RootsHandlerResume(h)
    \/ SubscribeRequest(<<SKILL>>)

SpecRoots == InitRoots /\ [][NextRoots]_vars

(* the directory layer with the subscription requests of a client *)
ServerUris == {<<SKILL>>}

NextServer ==
    \/ NextDirs
    \/ last.op # "exit" /\ \E uri \in ServerUris : SubscribeRequest(uri)
    \/ last.op # "exit" /\ \E uri \in ServerUris : UnsubscribeRequest(uri)

SpecServer == InitDirs /\ [][NextServer]_vars

(* the directory layer with requests for the per-skill prompts *)
NextPrompts ==
    \/ NextDirs
    \/ last.op # "exit" /\ \E name \in Names : GetPrompt(name)

SpecPrompts == InitDirs /\ [][NextPrompts]_vars

(* the subscription graph with watchers that may fail to start *)
NextWatch ==
    \/ NextGraph
    \/ \E uri \in Uris : \E failing \in SUBSET Dirs :
           \E outcome \in {"throws", "dead"} :
               SubscribeFailing(uri, failing, outcome)

SpecWatch == InitGraph /\ [][NextWatch]_vars


(* ======================= properties ======================= *)
Dependents(P) == {u \in DOMAIN uriToFilePaths : P \in uriToFilePaths[u]}
KnownPaths ==
    watchers \cup (DOMAIN live) \cup (DOMAIN filePathToUris)
        \cup UNION {uriToFilePaths[u] : u \in DOMAIN uriToFilePaths}
(* the URIs the last operation removed from uriToFilePaths *)
Removed == (DOMAIN last.pre.uriToFilePaths) \ (DOMAIN uriToFilePaths)
SkillDirs(skillMap_) == {dirname(skillMap_[n]) : n \in DOMAIN skillMap_}

C2_UnsubscribeCancelsTimer ==
    last.op = "unsubscribe" =>
        /\ timers[last.uri] = <<>>
        /\ last.uri \notin pendingNotifications

(* C3: when a reconcile has removed a URI that resolves to nothing, no     *)
(* debounce timer of that URI is live and pendingNotifications holds no    *)
(* entry for it.                                                           *)
C3_ReconcileCancelsTimer ==
    last.op = "refresh" =>
        \A u \in Removed : timers[u] = <<>> /\ u \notin pendingNotifications

C5_DebounceCoalesces ==
    /\ \A u \in Uris : Len(timers[u]) <= 1
    /\ last.op = "event" =>
           \A u \in last.calls.scheduled : timers[u] = <<DEBOUNCE_MS>>
    /\ last.op = "notify" =>
           /\ last.quiet.ms >= DEBOUNCE_MS
           /\ last.calls.notified = {last.uri}
           /\ timers[last.uri] = <<>>

(* a notification that answers more than one event *)
C5_Witness == last.op = "notify" /\ last.quiet.coalesced

C7_WatcherKeptAcrossReconcile ==
    last.op = "refresh" =>
        \A P \in last.pre.watchers :
            Dependents(P) # {} =>
                P \notin last.calls.closed /\ P \notin last.calls.created

C10_ReconcileIdempotent ==
    last.seq = "repeat" =>
        /\ last.calls.created = {} /\ last.calls.closed = {}
        /\ uriToFilePaths = last.pre.uriToFilePaths
        /\ filePathToUris = last.pre.filePathToUris
        /\ watchers = last.pre.watchers

(* a second reconcile with subscriptions and watchers in place *)
C10_Witness ==
    /\ last.seq = "repeat"
    /\ Cardinality(DOMAIN uriToFilePaths) >= 2
    /\ watchers # {}

(* C11: a subscribe request for a URI of another scheme is answered with   *)
(* "Unsupported URI scheme", one for a skill:// URI that resolves to no    *)
(* path with "Resource not found"; either way the request leaves           *)
(* uriToFilePaths, filePathToUris and watchers as they were, and creates   *)
(* no watcher and no timer.  No other subscribe request fails.             *)
C11_FailedSubscribeChangesNothing ==
    last.op = "subscribe" =>
        /\ last.error = (IF Head(last.uri) # SKILL
                         THEN "Unsupported URI scheme"
                         ELSE IF resolveUriToFilePaths(last.uri, skillMap) = {}
                         THEN "Resource not found" ELSE "none")
        /\ last.error # "none" =>
               /\ uriToFilePaths = last.pre.uriToFilePaths
               /\ filePathToUris = last.pre.filePathToUris
               /\ watchers = last.pre.watchers
               /\ last.uri \notin DOMAIN uriToFilePaths
               /\ last.calls = NoCalls

(* a request for an unknown skill name, made while the store has a skill   *)
(* and another subscription is watched                                     *)
C11_Witness ==
    /\ last.op = "subscribe"
    /\ last.error = "Resource not found"
    /\ DOMAIN skillMap # {}
    /\ watchers # {}

(* C12: unsubscribe(I) for a URI without subscription reports success and  *)
(* leaves uriToFilePaths, filePathToUris and watchers as they were; a      *)
(* second unsubscribe(I) right after the first changes nothing.            *)
C12_UnsubscribeIdempotent ==
    /\ (last.op = "unsubscribe" /\ last.seq # "roundtrip"
            /\ last.uri \notin DOMAIN last.pre.uriToFilePaths) =>
           /\ last.error = "none"
           /\ last.calls = NoCalls
           /\ uriToFilePaths = last.pre.uriToFilePaths
           /\ filePathToUris = last.pre.filePathToUris
           /\ watchers = last.pre.watchers
    /\ last.seq = "twice" =>
           /\ last.error = "none"
           /\ uriToFilePaths = last.pre.uriToFilePaths
           /\ filePathToUris = last.pre.filePathToUris
           /\ watchers = last.pre.watchers

(* the second of two unsubscribe(I) in a row, with another subscription    *)
(* and its watcher in place                                                *)
C12_Witness ==
    /\ last.seq = "twice"
    /\ DOMAIN uriToFilePaths # {}
    /\ watchers # {}

(* the URI is subscribed and has a live timer that the last operation did  *)
(* not set: an earlier change event is waiting to be notified              *)
Waiting(u) ==
    /\ u \in DOMAIN uriToFilePaths
    /\ timers[u] # <<>>
    /\ ~(last.op = "event" /\ u \in last.calls.scheduled)

(* C13: when a change event has set the timer of a subscribed URI, then    *)
(* the notification for the URI is sent, or the URI stops being            *)
(* subscribed, or a further change event resets its timer.                 *)
C13_EventuallyNotified ==
    \A u \in LiveUris :
        Waiting(u) ~>
            \/ last.op = "notify" /\ u \in last.calls.notified
            \/ u \notin DOMAIN uriToFilePaths
            \/ last.op = "event" /\ u \in last.calls.scheduled

(* the notification for a URI that is still subscribed has been sent one   *)
(* debounce window after its event                                         *)
C13_Witness ==
    /\ last.op = "notify"
    /\ last.uri \in DOMAIN uriToFilePaths
    /\ last.calls.notified = {last.uri}
    /\ last.quiet.ms >= DEBOUNCE_MS

(* the subscribed URIs with a path that is the changed path or a           *)
(* directory above it                                                      *)
Covering(changedPath) ==
    {u \in DOMAIN uriToFilePaths :
        \E P \in uriToFilePaths[u] : IsPrefix(P, changedPath)}

C15_CallbackFailureContained ==
    (last.op \in {"notify", "exit"} /\ ~last.ok) =>
        /\ last.error = "none"
        /\ last.op # "exit"
        /\ last.uri \notin pendingNotifications
        /\ timers[last.uri] = <<>>

(* C16: when chokidar.watch fails for some of the resolved paths of a      *)
(* subscribe, the subscription is made of the other paths alone; when none *)
(* is left, the request is answered "Resource not found" and leaves no     *)
(* subscription, no filePathToUris entry and no watcher behind.            *)
C16_FailedWatcherSkipped ==
    (last.op = "subscribe" /\ last.failed # {}) =>
        LET good == resolveUriToFilePaths(last.uri, skillMap) \ last.failed IN
        IF good # {}
        THEN /\ last.ok
             /\ last.uri \in DOMAIN uriToFilePaths
             /\ uriToFilePaths[last.uri] = good
             /\ \A P \in last.failed :
                    P \notin watchers /\ last.uri \notin MapGet(filePathToUris, P)
        ELSE /\ last.error = "Resource not found"
             /\ last.uri \notin DOMAIN uriToFilePaths
             /\ filePathToUris = last.pre.filePathToUris
             /\ watchers = last.pre.watchers

(* the skill name a URI of one of the three forms with a name carries *)
NameOf(uri) == decodeURIComponent(uri[2])
IsManifestUri(uri) == Len(uri) = 2 /\ Head(uri) = SKILL /\ uri[2] # "/"
IsDirUri(uri) ==
    Len(uri) = 3 /\ Head(uri) = SKILL /\ uri[2] # "/" /\ uri[3] = "/"
IsFileUri(uri) ==
    Len(uri) >= 4 /\ Head(uri) = SKILL /\ uri[2] # "/" /\ uri[3] = "/"

(* C17: resolveUriToFilePaths raises no error for any URI; skill://        *)
(* resolves to the directories of all skills, skill://{name} to the        *)
(* manifest of the skill and skill://{name}/ to its directory, each to     *)
(* nothing when the name is unknown, and a URI of no known form resolves   *)
(* to nothing.                                                             *)
C17_ResolveTotal ==
    last.op = "resolve" =>
        LET uri == last.uri IN
        /\ last.error = "none"
        /\ uri = <<SKILL>> => last.paths = SkillDirs(skillMap)
        /\ IsManifestUri(uri) =>
               last.paths = IF NameOf(uri) \in DOMAIN skillMap
                            THEN {skillMap[NameOf(uri)]} ELSE {}
        /\ IsDirUri(uri) =>
               last.paths = IF NameOf(uri) \in DOMAIN skillMap
                            THEN {dirname(skillMap[NameOf(uri)])} ELSE {}
        /\ (uri # <<SKILL>> /\ ~IsManifestUri(uri) /\ ~IsDirUri(uri)
              /\ ~IsFileUri(uri)) => last.paths = {}

(* the place a file URI of a known skill points to *)
Target(uri) ==
    resolve(dirname(skillMap[NameOf(uri)]), SubSeq(uri, 4, Len(uri)))

C19_RefreshUsesActiveDirs ==
    last.op = "refresh" =>
        skillMap = createSkillMap(discoverSkillsFromDirs(getActiveDirectories, disk))

(* a SKILL.md under one of the active directories has just been added,     *)
(* changed or removed                                                      *)
ChangedUnderActiveDir ==
    /\ last.op = "diskchange"
    /\ \E i \in 1..Len(getActiveDirectories) :
           IsPrefix(getActiveDirectories[i], last.path)

(* C20: when a SKILL.md under an active directory is added, changed or     *)
(* removed, refreshSkills eventually runs.                                 *)
C20_ChangeLeadsToRefresh ==
    ChangedUnderActiveDir ~> (last.op \in {"refresh", "exit"})

(* the directories a call scans, in scan order: each configured directory, *)
(* then its .claude/skills, then its skills                                *)
ScanDir(skillsDirs, k) ==
    LET dir == skillsDirs[((k - 1) \div 3) + 1]
        j == (k - 1) % 3
    IN  IF j = 0 THEN dir ELSE dir \o SKILL_SUBDIRS[j]

(* the skills on disk as (scan position, entry position) pairs *)
Found(skillsDirs) ==
    { c \in (1..(3 * Len(skillsDirs))) \X (1..Len(EntryOrder)) :
        ScanDir(skillsDirs, c[1]) \o <<EntryOrder[c[2]], "SKILL.md">> \in disk }
FoundName(c) == metadataName(EntryOrder[c[2]])
FoundPath(skillsDirs, c) ==
    ScanDir(skillsDirs, c[1]) \o <<EntryOrder[c[2]], "SKILL.md">>
Earlier(c, d) == c[1] < d[1] \/ (c[1] = d[1] /\ c[2] < d[2])
FirstFound(skillsDirs, name) ==
    CHOOSE c \in Found(skillsDirs) :
        /\ FoundName(c) = name
        /\ \A d \in Found(skillsDirs) :
               FoundName(d) = name /\ d # c => Earlier(c, d)

(* C21: the list discoverSkillsFromDirs returns holds no name twice, and   *)
(* for every name found on disk it holds the skill found first in scan     *)
(* order.                                                                  *)
C21_FirstOccurrenceWins ==
    last.op = "discover" =>
        LET skills == last.skills
            dirs == last.dirs
        IN  /\ \A i, j \in 1..Len(skills) :
                   skills[i].name = skills[j].name => i = j
            /\ {skills[i].name : i \in 1..Len(skills)}
                   = {FoundName(c) : c \in Found(dirs)}
            /\ \A i \in 1..Len(skills) :
                   skills[i].path
                       = FoundPath(dirs, FirstFound(dirs, skills[i].name))

(* a call that found the name a in three places of two directories: in the *)
(* second directory, and in an entry and in skills of the first            *)
C21_Witness ==
    /\ last.op = "discover"
    /\ last.dirs = << <<"r1">>, <<"r2">> >>
    /\ {<<"r1", "a2", "SKILL.md">>, <<"r1", "skills", "a", "SKILL.md">>,
        <<"r1", ".claude", "skills", "a", "SKILL.md">>,
        <<"r2", "a", "SKILL.md">>, <<"r2", "b", "SKILL.md">>} \subseteq disk
    /\ <<"r1", "a", "SKILL.md">> \notin disk
    /\ Len(last.skills) = 2
    /\ last.skills[1] = [name |-> "a", path |-> <<"r1", "a2", "SKILL.md">>]

(* C22: at most one refresh timer is pending; a timer is pending exactly   *)
(* while watcher events are unanswered; and a refreshSkills call of the    *)
(* watcher answers all the K >= 1 events that arrived before it and leaves *)
(* no timer behind, so K rapid events cause one call, after the last.      *)
C22_RefreshCoalesced ==
    /\ refreshPending <= 1
    /\ (refreshPending = 1) <=> (burst >= 1)
    /\ (last.op = "refresh" /\ last.by = "watcher") =>
           /\ last.events >= 1
           /\ refreshPending = 0
           /\ burst = 0

(* one refresh has answered two watcher events *)
C22_Witness ==
    /\ last.op = "refresh"
    /\ last.by = "watcher"
    /\ last.events = 2
    /\ refreshPending = 0

(* C24: after every refresh, the keys of registry.perSkillPrompts are the  *)
(* skill names of skillState.skillMap, also for a skill that was removed   *)
(* and is added again.                                                     *)
C24_RegistryMatchesSkillMap ==
    last.op \in {"refresh", "exit"} => perSkillPrompts = DOMAIN skillMap

(* C30: a request for the per-skill prompt N loads the SKILL.md at the     *)
(* path skillState.skillMap records for N.                                 *)
C30_PromptLoadsCurrentPath ==
    (last.op = "prompt" /\ last.name \in DOMAIN skillMap) =>
        last.path = skillMap[last.name]

(* every subscription holds the paths its URI resolves to in the current   *)
(* skill map                                                               *)
Reconciled ==
    \A uri \in DOMAIN uriToFilePaths :
        uriToFilePaths[uri] = resolveUriToFilePaths(uri, skillMap)

StepAt(steps, step) == {i \in 1..Len(steps) : steps[i] = step}

(* C23: refreshSkills reconciles the subscriptions with the skill map it   *)
(* installed before its turn ends, so between callbacks every subscription *)
(* agrees with the skill map; and it sends the tools and resources         *)
(* list-changed notifications only after the reconcile.                    *)
C23_RefreshReconcilesInTurn ==
    /\ Reconciled
    /\ last.op \in {"refresh", "exit"} =>
           /\ StepAt(last.steps, "refreshSubscriptions") # {}
           /\ \A i \in StepAt(last.steps, "refreshSubscriptions") :
              \A j \in StepAt(last.steps, "sendToolListChanged")
                          \cup StepAt(last.steps, "sendResourceListChanged") :
                  i < j

(* C25: a refresh calls onNotify for every subscribed URI whose resolved   *)
(* path set in the new skill map differs from the path set it had.         *)
C25_RefreshNotifiesChanged ==
    last.op = "refresh" =>
        \A uri \in DOMAIN last.pre.uriToFilePaths :
            resolveUriToFilePaths(uri, skillMap) # last.pre.uriToFilePaths[uri]
                => uri \in last.calls.notified

(* the URIs other than I keep their path set, their pending entry and      *)
(* their timers in this step                                               *)
OthersUntouched(touched) ==
    \A J \in Uris \ touched :
        /\ (J \in DOMAIN uriToFilePaths') = (J \in DOMAIN uriToFilePaths)
        /\ J \in DOMAIN uriToFilePaths => uriToFilePaths'[J] = uriToFilePaths[J]
        /\ (J \in pendingNotifications') = (J \in pendingNotifications)
        /\ timers'[J] = timers[J]

C26_Step ==
    /\ last'.op \in {"subscribe", "unsubscribe", "notify"} =>
           OthersUntouched({last'.uri})
    /\ last'.op = "event" => OthersUntouched(Covering(last'.path))
    /\ last'.op = "unsubscribe" =>
           \A J \in DOMAIN uriToFilePaths' : \A P \in uriToFilePaths'[J] :
               P \in watchers' /\ LiveCount(live', P) >= 1
    /\ (last'.op = "event" /\ last'.seq = "afterUnsub") =>
           \A J \in DOMAIN uriToFilePaths' :
               (\E P \in uriToFilePaths'[J] : IsPrefix(P, last'.path))
                   => /\ J \in last'.calls.scheduled
                      /\ timers'[J] = <<DEBOUNCE_MS>>

(* C26: subscribe(I), unsubscribe(I), a timer reset for I and a timer      *)
(* firing for I leave the path set and the timer of every other URI J as   *)
(* they were; after unsubscribe(I) every path of J, shared with I or not,  *)
(* still has its open watcher, and a change reported for it right after    *)
(* sets the timer that notifies J.                                         *)
C26_OtherUrisUntouched == [][C26_Step]_vars

(* skill:// and skill://a/ shared the directory of skill a; skill://a/ was *)
(* unsubscribed, and the change reported next set the timer of skill://    *)
C26_Witness ==
    /\ last.op = "event"
    /\ last.seq = "afterUnsub"
    /\ last.uri = <<SKILL, "a", "/">>
    /\ <<SKILL>> \in DOMAIN last.pre.uriToFilePaths
    /\ last.pre.uriToFilePaths[<<SKILL>>] = last.pre.uriToFilePaths[last.uri]
    /\ \E P \in uriToFilePaths[<<SKILL>>] : IsPrefix(P, last.path)
    /\ <<SKILL>> \in last.calls.scheduled
    /\ timers[<<SKILL>>] = <<DEBOUNCE_MS>>

C28_SubscribeIdempotent ==
    (last.op = "subscribe" /\ last.uri \in DOMAIN last.pre.uriToFilePaths) =>
        /\ last.ok
        /\ uriToFilePaths = last.pre.uriToFilePaths
        /\ filePathToUris = last.pre.filePathToUris
        /\ watchers = last.pre.watchers
        /\ last.calls.created = {}
        /\ last.calls.closed = {}
        /\ \A P \in watchers : LiveCount(live, P) = 1

(* skill:// is subscribed again while it holds two directories, one of     *)
(* them shared with another URI                                            *)
C28_Witness ==
    /\ last.op = "subscribe"
    /\ last.uri = <<SKILL>>
    /\ <<SKILL>> \in DOMAIN last.pre.uriToFilePaths
    /\ Cardinality(uriToFilePaths[<<SKILL>>]) = 2
    /\ Cardinality(DOMAIN uriToFilePaths) = 2
    /\ \E P \in DOMAIN filePathToUris : Cardinality(filePathToUris[P]) = 2

(* C29: once every roots/list_changed handler has finished, the installed  *)
(* skill map is the one of the client's most recent roots list, and the    *)
(* subscriptions are reconciled with it.                                   *)
C29_LatestRootsWin ==
    (last.op = "roots" /\ rootsInFlight = <<>>) =>
        /\ skillMap = rootsSkillMap(clientRoots, disk)
        /\ Reconciled

====
